---- MODULE Spec2Model ----
(***************************************************************************)
(* The HTTP gateway of src/server.js: sixteen Express route handlers over  *)
(* three backing stores (MongoDB through mongoose, S3 through aws-sdk,     *)
(* MySQL through a mysql2 pool).  A handler runs to its next `await`       *)
(* without interruption; the actions below are those uninterrupted runs.   *)
(* A store call is atomic at the store and either returns or throws.       *)
(*                                                                         *)
(* server.js declares `mysql` (lines 9, 14) and `DB_NAME` (lines 19, 279)  *)
(* twice; the model reads both DB_NAME declarations as one name for one    *)
(* database, the one the pool connects to (line 26) and USE selects.       *)
(***************************************************************************)
EXTENDS Integers, Sequences, FiniteSets, TLC

(* ------------------------------ bounds -------------------------------- *)

\* Rows the AUTO_INCREMENT column hands out before the model stops inserting.
MaxRows == 1

\* Size of the mysql2 pool.  createPool (lines 22-28) sets no
\* connectionLimit, so the library's finite default applies; the model
\* scales it down.
ConnectionLimit == 2

\* The requests of one store that are in flight at a time (received, their
\* response not yet read by the client): two, which is what it takes for the
\* store calls of one request to fall between those of another.
Slots == {1, 2}

(* --------------------------- request values --------------------------- *)

NULL == "NULL"

Digits == <<"0", "1", "2", "3", "4", "5", "6", "7", "8", "9">>

IsDigit(c) == \E i \in 1..10 : Digits[i] = c

DigitValue(c) == (CHOOSE i \in 1..10 : Digits[i] = c) - 1

\* String(n) for a non-negative integer: how a client writes a returned
\* insertId into the :id segment of the path.
RECURSIVE IntToStr(_)
IntToStr(n) ==
    IF n < 10 THEN <<Digits[n + 1]>>
    ELSE IntToStr(n \div 10) \o <<Digits[(n % 10) + 1]>>

\* MySQL's conversion of a string to a number for `Id = ?` with a string
\* parameter (req.params.id is always a string): the value of the longest
\* numeric prefix, 0 when there is none.
RECURSIVE NumericPrefix(_, _)
NumericPrefix(s, acc) ==
    IF s = <<>> \/ ~IsDigit(Head(s)) THEN acc
    ELSE NumericPrefix(Tail(s), acc * 10 + DigitValue(Head(s)))

SqlToNumber(s) == NumericPrefix(s, 0)

\* The conversion dropped characters ("Truncated incorrect DOUBLE value").
SqlTruncated(s) == s = <<>> \/ \E i \in 1..Len(s) : ~IsDigit(s[i])

\* DECIMAL(10,2) (line 290) of a price given in thousandths: rounded half up
\* to hundredths.
DecimalRound2(p) == (p + 5) \div 10

\* :id segments a client sends to /produtos/:id: every id the table can
\* hold, and one that is not a number.
ProdutoIdParams == {IntToStr(i) : i \in 1..MaxRows} \cup {<<"x">>}

\* JSON bodies of POST/PUT /produtos: Preco in thousandths; a field the
\* client leaves out is undefined, which mysql2 sends as NULL.
ProdutoBodies ==
    { [Nome |-> "A", Descricao |-> "d", Preco |-> 9905],
      [Nome |-> "B", Descricao |-> "d", Preco |-> 9900],
      [Nome |-> NULL, Descricao |-> "d", Preco |-> 9900] }

NoBody == [Nome |-> NULL, Descricao |-> NULL, Preco |-> 0]

(* ------------------------------- state -------------------------------- *)

VARIABLES
    sqlReq,     \* slot -> the relational request in it
    schema,     \* "nodb" | "notable" | "ready": what exists on the server
    produto,    \* the rows of table produto
    nextId,     \* the table's AUTO_INCREMENT counter
    connOut,    \* pool connections checked out and not released
    connQueue,  \* slots whose getConnection() waits for a release, in order
    mgReq,      \* slot -> the document-store request in it
    users,      \* the documents of collection usuarios
    nextOid,    \* how many ObjectIds mongoose has generated, plus one
    s3Req,      \* slot -> the object-storage request in it
    objects     \* the objects S3 holds

sqlVars == <<sqlReq, schema, produto, nextId, connOut, connQueue>>

mgVars == <<mgReq, users, nextOid>>

s3Vars == <<s3Req, objects>>

vars == <<sqlReq, schema, produto, nextId, connOut, connQueue,
          mgReq, users, nextOid, s3Req, objects>>

IdleSql ==
    [route |-> "none", pc |-> "idle", id |-> <<>>, body |-> NoBody,
     status |-> 0, ev |-> <<>>, rows |-> {}, insertId |-> 0,
     error |-> "", after |-> "none", touched |-> FALSE]

IdleMg ==
    [route |-> "none", pc |-> "idle", id |-> <<>>, body |-> <<>>,
     status |-> 0, ev |-> <<>>, docs |-> {}, error |-> "",
     after |-> "none", touched |-> FALSE]

\* A request that carries no file part.
NoFile == [fieldname |-> "", originalname |-> "", buffer |-> "", mimetype |-> ""]

IdleS3 ==
    [route |-> "none", pc |-> "idle", bucket |-> "", key |-> "",
     file |-> NoFile, status |-> 0, ev |-> <<>>, error |-> ""]

Init ==
    /\ sqlReq = [s \in Slots |-> IdleSql]
    /\ schema \in {"nodb", "notable", "ready"}
    /\ produto = {}
    /\ nextId = 1
    /\ connOut = 0
    /\ connQueue = <<>>
    /\ mgReq = [s \in Slots |-> IdleMg]
    /\ users = {}
    /\ nextOid = 1
    /\ s3Req = [s \in Slots |-> IdleS3]
    /\ objects = {}

(* ------------------------- the mysql2 pool ---------------------------- *)

\* The pool options of lines 22-28 do not set multipleStatements, so the
\* connections refuse a query text that holds more than one statement.
MultipleStatements == FALSE

\* The first awaited query of a handler once it holds a connection: USE for
\* the five /produtos handlers (lines 305, 317, 331, 347, 363), the schema
\* script itself for /init-db (line 294).
FirstAwait(route) == IF route = "initDb" THEN "query" ELSE "use"

\* pool.getConnection() resolving for request r.
Granted(r) ==
    [r EXCEPT !.pc = FirstAwait(r.route), !.ev = Append(@, "checkout")]

\* A handler whose 404 branch returned ahead of connection.release().
SuccessTailEarlyReturn(status) ==
    IF status = 404 THEN <<"respond">> ELSE <<"release", "respond">>

\* What a handler does after its last query returned: connection.release()
\* and then the response (lines 295-296, 307-308, 319-321, 336-337,
\* 352-354, 365-367), the 404 branches included.
SuccessTail(status) == <<"release", "respond">>

\* What a catch block does (lines 297-299, 309-311, 322-324, 338-340,
\* 355-357, 368-370): the response, nothing else.
CatchTail == <<"respond">>

Responded(r, status, tail) ==
    [r EXCEPT !.pc = "done", !.status = status, !.ev = @ \o tail]

\* A rejected await: the catch block answers 500; `error` is err.message,
\* which the relational and object-storage handlers send in the body.
Caught(r, err) == [Responded(r, 500, CatchTail) EXCEPT !.error = err]

HasEvent(tail, e) == \E i \in 1..Len(tail) : tail[i] = e

\* Slot s ends as `done`, the other slots being `reqs`; when the handler's
\* tail releases, the connection goes to the longest-waiting getConnection()
\* or back to the pool.
Settle(s, done, reqs) ==
    LET releases == HasEvent(done.ev, "release")
    IN  IF releases /\ connQueue # <<>>
        THEN LET w == Head(connQueue)
             IN  /\ sqlReq' = [reqs EXCEPT ![s] = done, ![w] = Granted(reqs[w])]
                 /\ connQueue' = Tail(connQueue)
                 /\ connOut' = connOut
        ELSE /\ sqlReq' = [reqs EXCEPT ![s] = done]
             /\ connQueue' = connQueue
             /\ connOut' = IF releases THEN connOut - 1 ELSE connOut

\* `await pool.getConnection()` of request r in slot s.  The pool connects
\* with `database: DB_NAME` (line 26): with no such database the connection
\* is refused and the handler's catch answers.
Acquire(s, r) ==
    IF schema = "nodb"
    THEN /\ sqlReq' = [sqlReq EXCEPT ![s] = Caught(r, "ER_BAD_DB_ERROR")]
         /\ UNCHANGED <<connOut, connQueue>>
    ELSE IF connOut < ConnectionLimit
    THEN /\ sqlReq' = [sqlReq EXCEPT ![s] = Granted(r)]
         /\ connOut' = connOut + 1
         /\ UNCHANGED connQueue
    ELSE /\ sqlReq' = [sqlReq EXCEPT ![s] = [r EXCEPT !.pc = "wait"]]
         /\ connQueue' = Append(connQueue, s)
         /\ UNCHANGED connOut

(* --------------------------- table produto ---------------------------- *)

\* SELECT * FROM produto WHERE Id = ? (line 318); also the rows an UPDATE
\* or DELETE with the same WHERE clause finds.
SelectById(table, id) == {row \in table : row.Id = SqlToNumber(id)}

\* An INSERT with the parameters of Nome and Descricao in each other's place.
InsertedRowSwapped(n, body) ==
    [Id |-> n, Nome |-> body.Descricao, Descricao |-> body.Nome,
     Preco |-> DecimalRound2(body.Preco)]

\* The row INSERT (lines 332-335) stores for a body.
InsertedRow(n, body) ==
    [Id |-> n, Nome |-> body.Nome, Descricao |-> body.Descricao,
     Preco |-> DecimalRound2(body.Preco)]

\* A NOT NULL column assigned NULL by an UPDATE outside strict mode takes
\* the type's implicit default, the empty string.
NotNull(v) == IF v = NULL THEN "" ELSE v

\* An UPDATE that inserts the row when the id matches none (an upsert).
UpdateRowsUpsert(table, id, body) ==
    {row \in table : row.Id # SqlToNumber(id)}
        \cup {[Id |-> SqlToNumber(id), Nome |-> NotNull(body.Nome),
               Descricao |-> NotNull(body.Descricao),
               Preco |-> DecimalRound2(body.Preco)]}

\* UPDATE produto SET Nome = ?, Descricao = ?, Preco = ? WHERE Id = ?
\* (lines 348-351).
UpdateRows(table, id, body) ==
    {IF row.Id = SqlToNumber(id)
       THEN [Id |-> row.Id, Nome |-> NotNull(body.Nome),
             Descricao |-> NotNull(body.Descricao),
             Preco |-> DecimalRound2(body.Preco)]
       ELSE row : row \in table}

\* DELETE FROM produto WHERE Id = ? (line 364).
DeleteRows(table, id) == table \ SelectById(table, id)

BodyHasNull(body) == body.Nome = NULL \/ body.Descricao = NULL

\* A request that still counts on row n being as its create left it: the
\* create that answered 201 with insertId n, and the get-by-id its client
\* sent next, until that get's SELECT has run.
Watching(r, n) ==
    \/ r.route = "postProduto" /\ r.pc = "done" /\ r.status = 201 /\ r.insertId = n
    \/ r.after = "create" /\ r.pc # "done" /\ SqlToNumber(r.id) = n

\* The requests after another request has changed or removed row n.
Touch(n) ==
    [t \in Slots |->
        IF Watching(sqlReq[t], n) THEN [sqlReq[t] EXCEPT !.touched = TRUE]
        ELSE sqlReq[t]]

(* ----------------------- relational handlers -------------------------- *)

SqlRoutes ==
    {"initDb", "getProdutos", "getProduto", "postProduto", "putProduto",
     "deleteProduto"}

SqlInFlight(route) ==
    {t \in Slots : sqlReq[t].route = route /\ sqlReq[t].pc \notin {"idle", "done"}}

NewSql(route, id, body) ==
    [IdleSql EXCEPT !.route = route, !.pc = "recv", !.id = id, !.body = body]

\* A relational request arrives and its handler runs to
\* `await pool.getConnection()` (lines 293, 304, 316, 330, 346, 362).
ReceiveSql(s, route, id, body) ==
    /\ sqlReq[s].pc = "idle"
    /\ route = "postProduto" =>
           nextId + Cardinality(SqlInFlight("postProduto")) <= MaxRows
    /\ Acquire(s, NewSql(route, id, body))
    /\ UNCHANGED <<schema, produto, nextId, mgVars, s3Vars>>

\* The client of a create that answered 201 sends GET /produtos/<insertId>.
FollowUpGet(s) ==
    /\ sqlReq[s].pc = "done"
    /\ sqlReq[s].route = "postProduto"
    /\ sqlReq[s].status = 201
    /\ Acquire(s, [NewSql("getProduto", IntToStr(sqlReq[s].insertId),
                          sqlReq[s].body)
                     EXCEPT !.after = "create",
                            !.touched = sqlReq[s].touched])
    /\ UNCHANGED <<schema, produto, nextId, mgVars, s3Vars>>

\* The client of an answered POST /init-db sends POST /init-db again.
FollowUpInitDb(s) ==
    /\ sqlReq[s].pc = "done"
    /\ sqlReq[s].route = "initDb"
    /\ Acquire(s, [NewSql("initDb", <<>>, NoBody) EXCEPT !.after = "initDb"])
    /\ UNCHANGED <<schema, produto, nextId, mgVars, s3Vars>>

\* The response has left; the slot is free again.
RetireSql(s) ==
    /\ sqlReq[s].pc = "done"
    /\ sqlReq' = [sqlReq EXCEPT ![s] = IdleSql]
    /\ UNCHANGED <<schema, produto, nextId, connOut, connQueue, mgVars, s3Vars>>

\* The error a query rejects with, "" when it returns: `fail` is the server
\* or the connection failing under it, the others are MySQL's answers.
Unavailable == "unavailable"

\* await connection.query(`USE ...`) (lines 305, 317, 331, 347, 363).
UseDb(s, fail) ==
    /\ sqlReq[s].pc = "use"
    /\ IF fail
       THEN Settle(s, Caught(sqlReq[s], Unavailable), sqlReq)
       ELSE /\ sqlReq' = [sqlReq EXCEPT ![s].pc = "query"]
            /\ UNCHANGED <<connOut, connQueue>>
    /\ UNCHANGED <<schema, produto, nextId, mgVars, s3Vars>>

\* POST /init-db (lines 281-300): one query() holding three statements.
InitDb(s, fail) ==
    LET r == sqlReq[s]
        err == IF fail THEN Unavailable
               ELSE IF ~MultipleStatements THEN "ER_PARSE_ERROR"
               ELSE ""
    IN  /\ r.pc = "query"
        /\ r.route = "initDb"
        /\ IF err # ""
           THEN /\ Settle(s, Caught(r, err), sqlReq)
                /\ UNCHANGED schema
           ELSE /\ Settle(s, Responded(r, 200, SuccessTail(200)), sqlReq)
                /\ schema' = "ready"
        /\ UNCHANGED <<produto, nextId, mgVars, s3Vars>>

\* The error of a statement on table produto that needs nothing else.
TableError(fail) ==
    IF fail THEN Unavailable
    ELSE IF schema # "ready" THEN "ER_NO_SUCH_TABLE"
    ELSE ""

\* GET /produtos (lines 302-312).
GetProdutos(s, fail) ==
    LET r == sqlReq[s]
        err == TableError(fail)
    IN  /\ r.pc = "query"
        /\ r.route = "getProdutos"
        /\ IF err # ""
           THEN Settle(s, Caught(r, err), sqlReq)
           ELSE Settle(s, Responded([r EXCEPT !.rows = produto], 200,
                                    SuccessTail(200)), sqlReq)
        /\ UNCHANGED <<schema, produto, nextId, mgVars, s3Vars>>

\* GET /produtos/:id (lines 314-325).  A SELECT only warns about a WHERE
\* value it had to truncate.
GetProduto(s, fail) ==
    LET r == sqlReq[s]
        err == TableError(fail)
        rows == SelectById(produto, r.id)
        status == IF rows = {} THEN 404 ELSE 200
    IN  /\ r.pc = "query"
        /\ r.route = "getProduto"
        /\ IF err # ""
           THEN Settle(s, Caught(r, err), sqlReq)
           ELSE Settle(s, Responded([r EXCEPT !.rows = rows], status,
                                    SuccessTail(status)), sqlReq)
        /\ UNCHANGED <<schema, produto, nextId, mgVars, s3Vars>>

\* POST /produtos (lines 327-341).
PostProduto(s, fail) ==
    LET r == sqlReq[s]
        err == IF TableError(fail) # "" THEN TableError(fail)
               ELSE IF BodyHasNull(r.body) THEN "ER_BAD_NULL_ERROR"
               ELSE ""
    IN  /\ r.pc = "query"
        /\ r.route = "postProduto"
        /\ IF err # ""
           THEN /\ Settle(s, Caught(r, err), sqlReq)
                /\ UNCHANGED <<produto, nextId>>
           ELSE /\ produto' = produto \cup {InsertedRow(nextId, r.body)}
                /\ nextId' = nextId + 1
                /\ Settle(s, Responded([r EXCEPT !.insertId = nextId], 201,
                                       SuccessTail(201)), sqlReq)
        /\ UNCHANGED <<schema, mgVars, s3Vars>>

\* In strict SQL mode (the server's default) an UPDATE or DELETE refuses a
\* WHERE value it had to truncate; outside it the statement only warns.
WhereError(fail, strict, id) ==
    IF TableError(fail) # "" THEN TableError(fail)
    ELSE IF strict /\ SqlTruncated(id) THEN "ER_TRUNCATED_WRONG_VALUE"
    ELSE ""

\* PUT /produtos/:id (lines 343-358).  In strict mode an UPDATE also
\* refuses NULL for a NOT NULL column of a row it changes.
PutProduto(s, fail, strict) ==
    LET r == sqlReq[s]
        matched == SelectById(produto, r.id)
        status == IF matched = {} THEN 404 ELSE 200
        err == IF WhereError(fail, strict, r.id) # ""
                 THEN WhereError(fail, strict, r.id)
               ELSE IF strict /\ matched # {} /\ BodyHasNull(r.body)
                 THEN "ER_BAD_NULL_ERROR"
               ELSE ""
    IN  /\ r.pc = "query"
        /\ r.route = "putProduto"
        /\ IF err # ""
           THEN /\ Settle(s, Caught(r, err), sqlReq)
                /\ UNCHANGED produto
           ELSE /\ produto' = UpdateRows(produto, r.id, r.body)
                /\ Settle(s, Responded(r, status, SuccessTail(status)),
                          IF matched = {} THEN sqlReq
                          ELSE Touch(SqlToNumber(r.id)))
        /\ UNCHANGED <<schema, nextId, mgVars, s3Vars>>

\* DELETE /produtos/:id (lines 360-371).
DeleteProduto(s, fail, strict) ==
    LET r == sqlReq[s]
        matched == SelectById(produto, r.id)
        status == IF matched = {} THEN 404 ELSE 200
        err == WhereError(fail, strict, r.id)
    IN  /\ r.pc = "query"
        /\ r.route = "deleteProduto"
        /\ IF err # ""
           THEN /\ Settle(s, Caught(r, err), sqlReq)
                /\ UNCHANGED produto
           ELSE /\ produto' = DeleteRows(produto, r.id)
                /\ Settle(s, Responded(r, status, SuccessTail(status)),
                          IF matched = {} THEN sqlReq
                          ELSE Touch(SqlToNumber(r.id)))
        /\ UNCHANGED <<schema, nextId, mgVars, s3Vars>>

SqlParams(route) ==
    CASE route \in {"initDb", "getProdutos"} -> {<<>>} \X {NoBody}
      [] route \in {"getProduto", "deleteProduto"} -> ProdutoIdParams \X {NoBody}
      [] route = "postProduto" -> {<<>>} \X ProdutoBodies
      [] route = "putProduto" -> ProdutoIdParams \X ProdutoBodies

NextSql ==
    \E s \in Slots :
        \/ \E route \in SqlRoutes : \E p \in SqlParams(route) :
               ReceiveSql(s, route, p[1], p[2])
        \/ FollowUpGet(s)
        \/ FollowUpInitDb(s)
        \/ RetireSql(s)
        \/ \E fail \in BOOLEAN : UseDb(s, fail)
        \/ \E fail \in BOOLEAN : InitDb(s, fail)
        \/ \E fail \in BOOLEAN : GetProdutos(s, fail)
        \/ \E fail \in BOOLEAN : GetProduto(s, fail)
        \/ \E fail \in BOOLEAN : PostProduto(s, fail)
        \/ \E fail, strict \in BOOLEAN : PutProduto(s, fail, strict)
        \/ \E fail, strict \in BOOLEAN : DeleteProduto(s, fail, strict)

SpecSql == Init /\ [][NextSql]_vars

(* ------------------------- collection usuarios ------------------------ *)

\* Users the model lets POST /usuarios create.
MaxUsers == 1

IsHex(c) == IsDigit(c) \/ c \in {"a", "b", "c", "d", "e", "f"}

\* The 24 hexadecimal characters of the n-th ObjectId mongoose generates, as
\* a client reads it from the `_id` of a response.
ObjectIdHex(n) == [i \in 1..24 |-> IF i = 24 THEN Digits[n + 1] ELSE "0"]

\* mongoose's cast of a string to the ObjectId of `_id`: 24 hexadecimal
\* characters, anything else is a CastError.
IsObjectId(s) == Len(s) = 24 /\ \A i \in 1..24 : IsHex(s[i])

ObjectIdOf(s) == NumericPrefix(s, 0)

\* :id segments a client sends to /usuarios/:id.
UserIdParams == {ObjectIdHex(i) : i \in 1..MaxUsers} \cup {<<"x">>}

\* JSON bodies of POST/PUT /usuarios, as functions from field names.
UserBodies ==
    { [nome |-> "a", email |-> "e"],
      [nome |-> "b", email |-> "e"],
      [nome |-> "a", email |-> "e", idade |-> "7"] }

\* UserSchema (lines 49-52): the paths a document keeps; the schema is
\* strict, so the other fields of a body are dropped.
SchemaPaths == {"nome", "email"}

SchemaCast(body) == [f \in (DOMAIN body) \cap SchemaPaths |-> body[f]]

\* new User(req.body) (line 129) with the n-th generated _id.
NewUser(n, body) == [_id |-> n, fields |-> SchemaCast(body)]

\* User.findById(id) (line 152) once the id is cast.
FindById(coll, id) == {d \in coll : d._id = ObjectIdOf(id)}

\* User.findByIdAndUpdate(id, body, { new: true }) (line 165): the fields the
\* body gives are set, the others kept.
UpdateUser(d, body) ==
    [d EXCEPT !.fields =
        [f \in (DOMAIN @) \cup (DOMAIN SchemaCast(body)) |->
            IF f \in DOMAIN SchemaCast(body) THEN body[f] ELSE @[f]]]

FindByIdAndUpdate(coll, id, body) ==
    {IF d._id = ObjectIdOf(id) THEN UpdateUser(d, body) ELSE d : d \in coll}

\* User.deleteOne({ _id: id }) (line 178).
DeleteOne(coll, id) == coll \ FindById(coll, id)

\* The document-store handlers log and then respond, on success (lines 74,
\* 131, 142, 155, 168, 183) and in the catch block (lines 81, 134, 145, 158,
\* 171, 186).
MgLoggedTail == <<"log", "respond">>

\* The 404 branches return before the log call (lines 153, 166, 179-181).
MgNotFoundTail == <<"respond">>

MgResponded(r, status, tail) ==
    [r EXCEPT !.pc = "done", !.status = status, !.ev = @ \o tail]

MgCaught(r, err) == [MgResponded(r, 500, MgLoggedTail) EXCEPT !.error = err]

\* The error of a call that casts `id` to the ObjectId of _id.
CastError(fail, id) ==
    IF fail THEN Unavailable
    ELSE IF ~IsObjectId(id) THEN "CastError"
    ELSE ""

MgWatching(r, n) ==
    \/ r.route = "postUsuario" /\ r.pc = "done" /\ r.status = 201
         /\ \E d \in r.docs : d._id = n
    \/ r.after = "create" /\ r.pc # "done" /\ ObjectIdOf(r.id) = n

MgTouch(n) ==
    [t \in Slots |->
        IF MgWatching(mgReq[t], n) THEN [mgReq[t] EXCEPT !.touched = TRUE]
        ELSE mgReq[t]]

(* ----------------------- document-store handlers ---------------------- *)

MgRoutes ==
    {"testarConexao", "postUsuario", "getUsuarios", "getUsuario",
     "putUsuario", "deleteUsuario"}

MgInFlight(route) ==
    {t \in Slots : mgReq[t].route = route /\ mgReq[t].pc = "call"}

\* A document-store request arrives and its handler runs to its `await`
\* (lines 73, 130, 141, 152, 165, 178).
ReceiveMg(s, route, id, body) ==
    /\ mgReq[s].pc = "idle"
    /\ route = "postUsuario" =>
           nextOid + Cardinality(MgInFlight("postUsuario")) <= MaxUsers
    /\ mgReq' = [mgReq EXCEPT ![s] =
           [IdleMg EXCEPT !.route = route, !.pc = "call", !.id = id,
                          !.body = body]]
    /\ UNCHANGED <<users, nextOid, sqlVars, s3Vars>>

\* The client of a create that answered 201 sends GET /usuarios/<_id>.
FollowUpGetUsuario(s) ==
    /\ mgReq[s].pc = "done"
    /\ mgReq[s].route = "postUsuario"
    /\ mgReq[s].status = 201
    /\ mgReq' = [mgReq EXCEPT ![s] =
           [IdleMg EXCEPT !.route = "getUsuario", !.pc = "call",
                          !.id = ObjectIdHex((CHOOSE d \in mgReq[s].docs : TRUE)._id),
                          !.body = mgReq[s].body, !.after = "create",
                          !.touched = mgReq[s].touched]]
    /\ UNCHANGED <<users, nextOid, sqlVars, s3Vars>>

RetireMg(s) ==
    /\ mgReq[s].pc = "done"
    /\ mgReq' = [mgReq EXCEPT ![s] = IdleMg]
    /\ UNCHANGED <<users, nextOid, sqlVars, s3Vars>>

\* GET /mongodb/testar-conexao (lines 70-84).
TestarConexao(s, fail) ==
    LET r == mgReq[s]
    IN  /\ r.pc = "call"
        /\ r.route = "testarConexao"
        /\ mgReq' = [mgReq EXCEPT ![s] =
               IF fail THEN MgCaught(r, Unavailable) ELSE MgResponded(r, 200, MgLoggedTail)]
        /\ UNCHANGED <<users, nextOid, sqlVars, s3Vars>>

\* POST /usuarios (lines 127-137).
PostUsuario(s, fail) ==
    LET r == mgReq[s]
        user == NewUser(nextOid, r.body)
    IN  /\ r.pc = "call"
        /\ r.route = "postUsuario"
        /\ IF fail
           THEN /\ mgReq' = [mgReq EXCEPT ![s] = MgCaught(r, Unavailable)]
                /\ UNCHANGED users
           ELSE /\ users' = users \cup {user}
                /\ mgReq' = [mgReq EXCEPT ![s] =
                       MgResponded([r EXCEPT !.docs = {user}], 201, MgLoggedTail)]
        /\ nextOid' = nextOid + 1
        /\ UNCHANGED <<sqlVars, s3Vars>>

\* GET /usuarios (lines 139-148).
GetUsuarios(s, fail) ==
    LET r == mgReq[s]
    IN  /\ r.pc = "call"
        /\ r.route = "getUsuarios"
        /\ mgReq' = [mgReq EXCEPT ![s] =
               IF fail THEN MgCaught(r, Unavailable)
               ELSE MgResponded([r EXCEPT !.docs = users], 200, MgLoggedTail)]
        /\ UNCHANGED <<users, nextOid, sqlVars, s3Vars>>

\* GET /usuarios/:id (lines 150-161).
GetUsuario(s, fail) ==
    LET r == mgReq[s]
        found == FindById(users, r.id)
    IN  /\ r.pc = "call"
        /\ r.route = "getUsuario"
        /\ mgReq' = [mgReq EXCEPT ![s] =
               IF CastError(fail, r.id) # "" THEN MgCaught(r, CastError(fail, r.id))
               ELSE IF found = {} THEN MgResponded(r, 404, MgNotFoundTail)
               ELSE MgResponded([r EXCEPT !.docs = found], 200, MgLoggedTail)]
        /\ UNCHANGED <<users, nextOid, sqlVars, s3Vars>>

\* PUT /usuarios/:id (lines 163-174).
PutUsuario(s, fail) ==
    LET r == mgReq[s]
        found == FindById(users, r.id)
        after == FindByIdAndUpdate(users, r.id, r.body)
    IN  /\ r.pc = "call"
        /\ r.route = "putUsuario"
        /\ IF CastError(fail, r.id) # ""
           THEN /\ mgReq' = [mgReq EXCEPT ![s] = MgCaught(r, CastError(fail, r.id))]
                /\ UNCHANGED users
           ELSE IF found = {}
           THEN /\ mgReq' = [mgReq EXCEPT ![s] = MgResponded(r, 404, MgNotFoundTail)]
                /\ UNCHANGED users
           ELSE /\ users' = after
                /\ mgReq' = [MgTouch(ObjectIdOf(r.id)) EXCEPT ![s] =
                       MgResponded([r EXCEPT !.docs = FindById(after, r.id)],
                                   200, MgLoggedTail)]
        /\ UNCHANGED <<nextOid, sqlVars, s3Vars>>

\* DELETE /usuarios/:id (lines 176-189).
DeleteUsuario(s, fail) ==
    LET r == mgReq[s]
        found == FindById(users, r.id)
    IN  /\ r.pc = "call"
        /\ r.route = "deleteUsuario"
        /\ IF CastError(fail, r.id) # ""
           THEN /\ mgReq' = [mgReq EXCEPT ![s] = MgCaught(r, CastError(fail, r.id))]
                /\ UNCHANGED users
           ELSE IF found = {}
           THEN /\ mgReq' = [mgReq EXCEPT ![s] = MgResponded(r, 404, MgNotFoundTail)]
                /\ UNCHANGED users
           ELSE /\ users' = DeleteOne(users, r.id)
                /\ mgReq' = [MgTouch(ObjectIdOf(r.id)) EXCEPT ![s] =
                       MgResponded(r, 200, MgLoggedTail)]
        /\ UNCHANGED <<nextOid, sqlVars, s3Vars>>

MgParams(route) ==
    CASE route \in {"testarConexao", "getUsuarios"} -> {<<>>} \X {<<>>}
      [] route \in {"getUsuario", "deleteUsuario"} -> UserIdParams \X {<<>>}
      [] route = "postUsuario" -> {<<>>} \X UserBodies
      [] route = "putUsuario" -> UserIdParams \X UserBodies

NextMg ==
    \E s \in Slots :
        \/ \E route \in MgRoutes : \E p \in MgParams(route) :
               ReceiveMg(s, route, p[1], p[2])
        \/ FollowUpGetUsuario(s)
        \/ RetireMg(s)
        \/ \E fail \in BOOLEAN : TestarConexao(s, fail)
        \/ \E fail \in BOOLEAN : PostUsuario(s, fail)
        \/ \E fail \in BOOLEAN : GetUsuarios(s, fail)
        \/ \E fail \in BOOLEAN : GetUsuario(s, fail)
        \/ \E fail \in BOOLEAN : PutUsuario(s, fail)
        \/ \E fail \in BOOLEAN : DeleteUsuario(s, fail)

SpecMg == Init /\ [][NextMg]_vars

(* ------------------------------ S3 ------------------------------------ *)

\* The buckets of the account; a call on any other name throws
\* NoSuchBucket.
Buckets == {"b1"}

BucketParams == Buckets \cup {"nb"}

KeyParams == {"k1", "k2"}

\* The file part of a multipart upload request: in the field `file`, or in
\* a field of another name.
Files ==
    { [fieldname |-> "file", originalname |-> "k1", buffer |-> "v1",
       mimetype |-> "text/plain"],
      [fieldname |-> "file", originalname |-> "k1", buffer |-> "v2",
       mimetype |-> "text/plain"],
      [fieldname |-> "file", originalname |-> "k2", buffer |-> "v1",
       mimetype |-> "text/plain"],
      [fieldname |-> "doc", originalname |-> "k1", buffer |-> "v1",
       mimetype |-> "text/plain"] }

\* upload.single('file') (line 233): multer refuses a file part in a field
\* it was not told of, and the request goes to Express's error handling
\* instead of the handler; otherwise req.file is the part of `file`, or
\* undefined.
MulterError(part) ==
    IF part # NoFile /\ part.fieldname # "file" THEN "LIMIT_UNEXPECTED_FILE"
    ELSE ""

\* The params of s3.upload (lines 241-246).
UploadParams(bucket, file) ==
    [Bucket |-> bucket, Key |-> file.originalname, Body |-> file.buffer,
     ContentType |-> file.mimetype]

SameObject(o, bucket, key) == o.Bucket = bucket /\ o.Key = key

\* s3.upload(params): the object of that bucket and key is written over.
PutObject(store, params) ==
    {o \in store : ~SameObject(o, params.Bucket, params.Key)} \cup {params}

\* A delete that empties the bucket instead of removing one key.
DeleteObjectWholeBucket(store, bucket, key) ==
    {o \in store : o.Bucket # bucket}

\* s3.deleteObject(params): succeeds whether or not the key exists.
DeleteObject(store, bucket, key) ==
    {o \in store : ~SameObject(o, bucket, key)}

\* A handler without the `if (!file)` check.
UploadRejectedNever(file) == FALSE

\* `if (!file)` (line 237): the handler answers 400 before it builds the
\* upload's params.
UploadRejected(file) == file = NoFile

\* The object-storage handlers log and then respond, on success (lines 208,
\* 222, 250, 267) and in the catch block (lines 211, 225, 253, 270).
S3LoggedTail == <<"log", "respond">>

S3Responded(r, status, tail) ==
    [r EXCEPT !.pc = "done", !.status = status, !.ev = @ \o tail]

S3Caught(r, err) == [S3Responded(r, 500, S3LoggedTail) EXCEPT !.error = err]

\* The error of a call on a bucket.
BucketError(fail, bucket) ==
    IF fail THEN Unavailable
    ELSE IF bucket \notin Buckets THEN "NoSuchBucket"
    ELSE ""

\* The handler's call of the S3 client is under way.
S3Called(r) == [r EXCEPT !.pc = "call", !.ev = Append(@, "s3call")]

(* ---------------------- object-storage handlers ----------------------- *)

S3Routes == {"listBuckets", "listObjects", "upload", "deleteFile"}

\* An object-storage request arrives and its handler runs to its `await`
\* (lines 207, 221, 249, 266), or to the 400 of an upload without a file
\* (lines 237-239).  server.js installs no error handler, so an upload
\* multer refuses is answered by Express's own: 500, the handler not run.
ReceiveS3(s, route, bucket, key, file) ==
    LET r == [IdleS3 EXCEPT !.route = route, !.bucket = bucket, !.key = key,
                            !.file = file]
    IN  /\ s3Req[s].pc = "idle"
        /\ s3Req' = [s3Req EXCEPT ![s] =
               IF route = "upload" /\ MulterError(file) # ""
               THEN [S3Responded(r, 500, <<"respond">>)
                       EXCEPT !.error = MulterError(file)]
               ELSE IF route = "upload" /\ UploadRejected(file)
               THEN S3Responded(r, 400, <<"respond">>)
               ELSE S3Called(r)]
        /\ UNCHANGED <<objects, sqlVars, mgVars>>

RetireS3(s) ==
    /\ s3Req[s].pc = "done"
    /\ s3Req' = [s3Req EXCEPT ![s] = IdleS3]
    /\ UNCHANGED <<objects, sqlVars, mgVars>>

\* GET /buckets (lines 205-214).
ListBuckets(s, fail) ==
    LET r == s3Req[s]
    IN  /\ r.pc = "call"
        /\ r.route = "listBuckets"
        /\ s3Req' = [s3Req EXCEPT ![s] =
               IF fail THEN S3Caught(r, Unavailable) ELSE S3Responded(r, 200, S3LoggedTail)]
        /\ UNCHANGED <<objects, sqlVars, mgVars>>

\* GET /buckets/:bucketName (lines 216-228).
ListObjects(s, fail) ==
    LET r == s3Req[s]
    IN  /\ r.pc = "call"
        /\ r.route = "listObjects"
        /\ s3Req' = [s3Req EXCEPT ![s] =
               IF BucketError(fail, r.bucket) # ""
               THEN S3Caught(r, BucketError(fail, r.bucket))
               ELSE S3Responded(r, 200, S3LoggedTail)]
        /\ UNCHANGED <<objects, sqlVars, mgVars>>

\* POST /buckets/:bucketName/upload (lines 233-256), from the upload on.
Upload(s, fail) ==
    LET r == s3Req[s]
    IN  /\ r.pc = "call"
        /\ r.route = "upload"
        /\ IF BucketError(fail, r.bucket) # ""
           THEN /\ s3Req' = [s3Req EXCEPT ![s] = S3Caught(r, BucketError(fail, r.bucket))]
                /\ UNCHANGED objects
           ELSE /\ objects' = PutObject(objects, UploadParams(r.bucket, r.file))
                /\ s3Req' = [s3Req EXCEPT ![s] = S3Responded(r, 200, S3LoggedTail)]
        /\ UNCHANGED <<sqlVars, mgVars>>

\* DELETE /buckets/:bucketName/file/:fileName (lines 258-273).
DeleteFile(s, fail) ==
    LET r == s3Req[s]
    IN  /\ r.pc = "call"
        /\ r.route = "deleteFile"
        /\ IF BucketError(fail, r.bucket) # ""
           THEN /\ s3Req' = [s3Req EXCEPT ![s] = S3Caught(r, BucketError(fail, r.bucket))]
                /\ UNCHANGED objects
           ELSE /\ objects' = DeleteObject(objects, r.bucket, r.key)
                /\ s3Req' = [s3Req EXCEPT ![s] = S3Responded(r, 200, S3LoggedTail)]
        /\ UNCHANGED <<sqlVars, mgVars>>

S3Params(route) ==
    CASE route = "listBuckets" -> {""} \X {""} \X {NoFile}
      [] route = "listObjects" -> BucketParams \X {""} \X {NoFile}
      [] route = "upload" -> BucketParams \X {""} \X (Files \cup {NoFile})
      [] route = "deleteFile" -> BucketParams \X KeyParams \X {NoFile}

NextS3 ==
    \E s \in Slots :
        \/ \E route \in S3Routes : \E p \in S3Params(route) :
               ReceiveS3(s, route, p[1], p[2], p[3])
        \/ RetireS3(s)
        \/ \E fail \in BOOLEAN : ListBuckets(s, fail)
        \/ \E fail \in BOOLEAN : ListObjects(s, fail)
        \/ \E fail \in BOOLEAN : Upload(s, fail)
        \/ \E fail \in BOOLEAN : DeleteFile(s, fail)

SpecS3 == Init /\ [][NextS3]_vars

(* --------------------------- specifications --------------------------- *)

Next == NextSql \/ NextMg \/ NextS3

\* The whole gateway: the three stores side by side.
Spec == Init /\ [][Next]_vars

SqlQuiet ==
    /\ schema = "ready"
    /\ sqlReq = [s \in Slots |-> IdleSql]
    /\ produto = {}
    /\ nextId = 1
    /\ connOut = 0
    /\ connQueue = <<>>

MgQuiet == mgReq = [s \in Slots |-> IdleMg] /\ users = {} /\ nextOid = 1

S3Quiet == s3Req = [s \in Slots |-> IdleS3] /\ objects = {}

\* No handler of one store reads or writes a variable of another (every
\* action above leaves the other stores' variables unchanged), so Spec is
\* the product of the three stores' behaviours.  NextStores runs one store
\* while the other two rest in their initial state: the sum instead of the
\* product, with the same states of each store.
NextStores ==
    \/ MgQuiet /\ S3Quiet /\ NextSql
    \/ SqlQuiet /\ S3Quiet /\ NextMg
    \/ SqlQuiet /\ MgQuiet /\ NextS3

SpecStores == Init /\ [][NextStores]_vars

\* A store call that was issued returns or throws.
SqlCallEnds(s) ==
    \/ \E fail \in BOOLEAN : UseDb(s, fail)
    \/ \E fail \in BOOLEAN : InitDb(s, fail)
    \/ \E fail \in BOOLEAN : GetProdutos(s, fail)
    \/ \E fail \in BOOLEAN : GetProduto(s, fail)
    \/ \E fail \in BOOLEAN : PostProduto(s, fail)
    \/ \E fail, strict \in BOOLEAN : PutProduto(s, fail, strict)
    \/ \E fail, strict \in BOOLEAN : DeleteProduto(s, fail, strict)

FairSql == SpecSql /\ \A s \in Slots : WF_vars(SqlCallEnds(s))

(* ------------------------------- claims ------------------------------- *)

SqlDone(s) == sqlReq[s].pc = "done"

\* Slot s's handler gets the answer of its last query in this step.
SqlAnswers(s, route) ==
    /\ sqlReq[s].route = route
    /\ sqlReq[s].pc = "query"
    /\ sqlReq'[s].pc = "done"

MgAnswers(s, route) ==
    /\ mgReq[s].route = route
    /\ mgReq[s].pc = "call"
    /\ mgReq'[s].pc = "done"

S3Answers(s, route) ==
    /\ s3Req[s].route = route
    /\ s3Req[s].pc = "call"
    /\ s3Req'[s].pc = "done"

\* C1: whenever no relational request is in flight (every request received
\* has been answered), no pool connection is checked out: each handler
\* gave its connection back, whatever its store calls did.
C1_PoolDiscipline ==
    (\A s \in Slots : sqlReq[s].pc \in {"idle", "done"}) => connOut = 0

\* C2: a DELETE /usuarios/:id or DELETE /produtos/:id whose identifier
\* matches no stored record answers 404, whatever the identifier is (the
\* store being up and the table in place).
C2_DeleteUnknownIs404 ==
    [][\A s \in Slots :
        /\ ( /\ MgAnswers(s, "deleteUsuario")
             /\ \A d \in users : ObjectIdHex(d._id) # mgReq[s].id
             /\ mgReq'[s].error # Unavailable )
           => mgReq'[s].status = 404
        /\ ( /\ SqlAnswers(s, "deleteProduto")
             /\ schema = "ready"
             /\ \A row \in produto : IntToStr(row.Id) # sqlReq[s].id
             /\ sqlReq'[s].error # Unavailable )
           => sqlReq'[s].status = 404]_vars

NoFileInFileField(r) == r.route = "upload" /\ r.file.fieldname # "file"

\* C4 as stated: an upload with no file in the `file` field is answered
\* 400, with no call of the S3 client made for it and the stored objects
\* left as they were.
C4_UploadAsStated ==
    /\ [](\A s \in Slots :
            NoFileInFileField(s3Req[s])
            => /\ s3Req[s].pc = "done"
               /\ s3Req[s].status = 400
               /\ ~HasEvent(s3Req[s].ev, "s3call"))
    /\ [][\A s \in Slots :
            (s3Req[s].pc = "idle" /\ NoFileInFileField(s3Req'[s]))
            => objects' = objects]_vars

\* C4 amended: an upload with no file in the `file` field is answered at
\* once, 400 when the request carries no file and 500 when it carries one in
\* another field; no call of the S3 client is made for it and the stored
\* objects are left as they were.
C4_UploadWithoutFile ==
    /\ [](\A s \in Slots :
            NoFileInFileField(s3Req[s])
            => /\ s3Req[s].pc = "done"
               /\ s3Req[s].file = NoFile => s3Req[s].status = 400
               /\ s3Req[s].file # NoFile => s3Req[s].status = 500
               /\ ~HasEvent(s3Req[s].ev, "s3call"))
    /\ [][\A s \in Slots :
            (s3Req[s].pc = "idle" /\ NoFileInFileField(s3Req'[s]))
            => objects' = objects]_vars

\* C4's case: an upload that carried no file has been answered 400 while
\* the bucket holds an object.
C4_Witness ==
    \E s \in Slots :
        /\ s3Req[s].route = "upload"
        /\ s3Req[s].file = NoFile
        /\ s3Req[s].status = 400
        /\ objects # {}

\* The get-by-id of slot s follows a create that answered 201 and has been
\* answered itself, the store not having failed under it.
SqlRoundTrip(s) ==
    /\ SqlDone(s)
    /\ sqlReq[s].after = "create"
    /\ sqlReq[s].error = ""

MgRoundTrip(s) ==
    /\ mgReq[s].pc = "done"
    /\ mgReq[s].after = "create"
    /\ mgReq[s].error = ""

\* The record a follow-up get returned is the submitted one as the store
\* keeps it: a product with the returned id, Nome and Descricao as submitted
\* and Preco rounded to two decimals; a user with the returned _id and the
\* submitted fields of the schema, nome and email.
SqlRecordAsSubmitted(r) ==
    /\ r.status = 200
    /\ \E row \in r.rows :
          /\ r.rows = {row}
          /\ IntToStr(row.Id) = r.id
          /\ row.Nome = r.body.Nome
          /\ row.Descricao = r.body.Descricao
          /\ row.Preco * 10 \in (r.body.Preco - 4)..(r.body.Preco + 5)

MgRecordAsSubmitted(r) ==
    /\ r.status = 200
    /\ \E d \in r.docs :
          /\ r.docs = {d}
          /\ ObjectIdHex(d._id) = r.id
          /\ DOMAIN d.fields = {"nome", "email"} \cap DOMAIN r.body
          /\ \A f \in DOMAIN d.fields : d.fields[f] = r.body[f]

LoggedBeforeResponse(ev) ==
    \E i, j \in 1..Len(ev) : i < j /\ ev[i] = "log" /\ ev[j] = "respond"

\* C6: on every route, a response with an error status (404 or 500) comes
\* after a log call of the same request.
C6_ErrorsAreLogged ==
    \A s \in Slots :
        /\ (SqlDone(s) /\ sqlReq[s].status \in {404, 500})
              => LoggedBeforeResponse(sqlReq[s].ev)
        /\ (mgReq[s].pc = "done" /\ mgReq[s].status \in {404, 500})
              => LoggedBeforeResponse(mgReq[s].ev)
        /\ (s3Req[s].pc = "done" /\ s3Req[s].status \in {404, 500})
              => LoggedBeforeResponse(s3Req[s].ev)

\* C7: a POST /init-db sent after another POST /init-db was answered is
\* answered with success, the server being up and the database in place,
\* and leaves database, table and rows as they were.
C7_InitDbTwice ==
    /\ [](\A s \in Slots :
            ( /\ SqlDone(s)
              /\ sqlReq[s].route = "initDb"
              /\ sqlReq[s].after = "initDb"
              /\ schema # "nodb"
              /\ sqlReq[s].error # Unavailable )
            => sqlReq[s].status = 200)
    /\ [][\A s \in Slots :
            (SqlAnswers(s, "initDb") /\ sqlReq[s].after = "initDb")
            => (schema' = schema /\ produto' = produto)]_vars

\* C8: every relational request received is eventually answered, store calls
\* that were issued returning or throwing.
C8_EveryRequestAnswered ==
    \A s \in Slots :
        (sqlReq[s].pc \in {"wait", "use", "query"}) ~> (sqlReq[s].pc = "done")

\* C9: a relational handler none of whose awaits threw has checked out one
\* connection, released it once, and only then responded; the 404 answers
\* of GET/PUT/DELETE /produtos/:id included.
C9_ReleaseBeforeResponse ==
    \A s \in Slots :
        (SqlDone(s) /\ sqlReq[s].error = "")
        => sqlReq[s].ev = <<"checkout", "release", "respond">>

\* C9's case: a DELETE /produtos/:id answered 404 after a query that returned.
C9_Witness ==
    \E s \in Slots :
        /\ SqlDone(s)
        /\ sqlReq[s].route = "deleteProduto"
        /\ sqlReq[s].status = 404
        /\ sqlReq[s].error = ""

HasObject(store, bucket, key) == \E o \in store : SameObject(o, bucket, key)

\* C10: DELETE /buckets/:bucketName/file/:fileName answers 200 when
\* deleteObject did not throw and 500 only when it threw; a delete that did
\* not throw leaves the key absent and every other object as it was, so a
\* delete of an absent key (a repeated delete) changes nothing.
C10_DeleteFile ==
    /\ [](\A s \in Slots :
            (s3Req[s].route = "deleteFile" /\ s3Req[s].pc = "done")
            => /\ s3Req[s].error = "" => s3Req[s].status = 200
               /\ s3Req[s].error # "" => s3Req[s].status = 500)
    /\ [][\A s \in Slots :
            (S3Answers(s, "deleteFile") /\ s3Req'[s].error = "")
            => /\ ~HasObject(objects', s3Req[s].bucket, s3Req[s].key)
               /\ \A o \in objects :
                     ~SameObject(o, s3Req[s].bucket, s3Req[s].key)
                     => o \in objects'
               /\ objects' \subseteq objects
               /\ ~HasObject(objects, s3Req[s].bucket, s3Req[s].key)
                     => objects' = objects]_vars

\* C10's case: two deletes of the same key were both answered 200 (the later
\* one found the key gone) while the bucket holds another object.
C10_Witness ==
    \E s, t \in Slots :
        /\ s # t
        /\ s3Req[s].route = "deleteFile" /\ s3Req[t].route = "deleteFile"
        /\ s3Req[s].pc = "done" /\ s3Req[t].pc = "done"
        /\ s3Req[s].status = 200 /\ s3Req[t].status = 200
        /\ s3Req[s].bucket = s3Req[t].bucket
        /\ s3Req[s].key = s3Req[t].key
        /\ objects # {}

====
